---- MODULE Spec2Model ----
(***************************************************************************)
(* Aya Share audio-to-video pipeline (src/scripts/app.py).                 *)
(*                                                                         *)
(* The state is the work directory (exported chunk files and the two JSON  *)
(* manifests), the output video, the arguments of the running call, the    *)
(* position of process_full_pipeline and the locals of the stage that is   *)
(* running: split_audio, transcribe_chunks, generate_video.                *)
(*                                                                         *)
(* Text is a sequence of one-character strings.  Durations are integers in *)
(* milliseconds; a fade length is kept in thirds of a millisecond so that  *)
(* duration / 3 is exact.                                                  *)
(***************************************************************************)
EXTENDS Integers, Sequences, FiniteSets, TLC

VARIABLES
    dirExists,              \* the work directory exists
    wavs,                   \* chunk file name -> duration_ms of the audio in it
    chunks_json,            \* chunks.json: [exists, content]
    transcriptions_json,    \* transcriptions.json: [exists, content]
    final_video_file,       \* the output video: [exists, content]
    audio,                  \* what split_on_silence finds in the input audio
    api_url,                \* TRUE when an endpoint is given
    fade_duration,          \* generate_video arguments (ms, ms, px, 1/s)
    min_duration_for_fade,
    font_size,
    fps,
    pc,                     \* position of the running call
    results,                \* process_full_pipeline: the result record
    raised,                 \* the message of the exception the pipeline re-raised
    exc,                    \* the exception in flight: [stage, msg]
    invoked,                \* the "[STEP n/3]" log of this run, in order
    runs,                   \* pipeline runs started on this work directory
    chunks,                 \* process_full_pipeline: chunks
    transcriptions,         \* process_full_pipeline: transcriptions
    wav_files,              \* transcribe_chunks locals
    idx,
    data,
    reqlog,                 \* transcribe_chunks: the per-file outcome it logs
    blank_count,            \* requests of this run that gave no caption text
    cdata,                  \* generate_video locals
    ci,
    clips,
    skipped_clips,
    held                    \* media resources open and not yet closed

fsVars   == <<dirExists, wavs, chunks_json, transcriptions_json, final_video_file>>
argVars  == <<audio, api_url, fade_duration, min_duration_for_fade, font_size, fps>>
orchVars == <<results, raised, invoked, runs, chunks, transcriptions>>
tVars    == <<wav_files, idx, data, reqlog, blank_count>>
cVars    == <<cdata, ci, clips, skipped_clips, held>>
vars     == <<fsVars, argVars, orchVars, tVars, cVars, pc, exc>>

(***************************************************************************)
(* Bounds of the model.                                                    *)
(***************************************************************************)
MaxSegments == 2    \* segments in the audio of a pipeline run
MaxChunks == 11     \* segments in the audio of a split-then-transcribe run
MaxRuns == 2        \* pipeline runs on one work directory
MaxBlank == 2       \* requests of one run that give no caption text
MaxRecords == 2     \* records of a transcript manifest handed to generate_video

(***************************************************************************)
(* Defaults of generate_video, as process_full_pipeline uses them.         *)
(***************************************************************************)
DefaultFadeMs == 800
DefaultMinDurationMs == 1000
DefaultFontSize == 60
DefaultFps == 24

ChunkDurations == {1500}
Durations == {0, 500, 900, 1500}
FadeDurations == {-100, 0, 300, 800}
MinDurations == {500, 1000}
FontSizes == {0, 60}
FpsValues == {0, 24}
Texts == { <<>>, <<" ">>, <<" ", "a", " ">> }
ResponseTexts == { <<>>, <<" ", "a", " ">> }

NoError == [stage |-> "none", msg |-> "none"]
NoFile == [exists |-> FALSE, content |-> <<>>]

Min(a, b) == IF a <= b THEN a ELSE b
Range(s) == {s[i] : i \in 1..Len(s)}

(***************************************************************************)
(* Strings: code points, Python's str ordering, sorted(), endswith(),      *)
(* strip(), str(int), os.path.join.                                        *)
(***************************************************************************)
CharCode(c) ==
    CASE c = " " -> 32 [] c = "." -> 46 [] c = "/" -> 47
      [] c = "0" -> 48 [] c = "1" -> 49 [] c = "2" -> 50 [] c = "3" -> 51
      [] c = "4" -> 52 [] c = "5" -> 53 [] c = "6" -> 54 [] c = "7" -> 55
      [] c = "8" -> 56 [] c = "9" -> 57 [] c = "_" -> 95
      [] c = "a" -> 97 [] c = "c" -> 99 [] c = "h" -> 104 [] c = "i" -> 105
      [] c = "j" -> 106 [] c = "k" -> 107 [] c = "n" -> 110 [] c = "o" -> 111
      [] c = "p" -> 112 [] c = "r" -> 114 [] c = "s" -> 115 [] c = "t" -> 116
      [] c = "u" -> 117 [] c = "v" -> 118 [] c = "w" -> 119

RECURSIVE StrLess(_, _)
StrLess(a, b) ==
    IF a = <<>> THEN b # <<>>
    ELSE IF b = <<>> THEN FALSE
    ELSE IF Head(a) = Head(b) THEN StrLess(Tail(a), Tail(b))
    ELSE CharCode(Head(a)) < CharCode(Head(b))

RECURSIVE Sorted(_)
Sorted(S) ==
    IF S = {} THEN <<>>
    ELSE LET m == CHOOSE x \in S : \A y \in S \ {x} : StrLess(x, y)
         IN  <<m>> \o Sorted(S \ {m})

EndsWith(s, suffix) ==
    /\ Len(s) >= Len(suffix)
    /\ SubSeq(s, Len(s) - Len(suffix) + 1, Len(s)) = suffix

RECURSIVE LStrip(_)
LStrip(s) == IF s # <<>> /\ Head(s) = " " THEN LStrip(Tail(s)) ELSE s

RECURSIVE RStrip(_)
RStrip(s) ==
    IF s # <<>> /\ s[Len(s)] = " " THEN RStrip(SubSeq(s, 1, Len(s) - 1)) ELSE s

Strip(s) == RStrip(LStrip(s))

DigitChar(d) == <<"0", "1", "2", "3", "4", "5", "6", "7", "8", "9">>[d + 1]

RECURSIVE IntStr(_)
IntStr(n) ==
    IF n < 10 THEN <<DigitChar(n)>>
    ELSE IntStr(n \div 10) \o <<DigitChar(n % 10)>>

WavSuffix == <<".", "w", "a", "v">>
ChunkName(i) == <<"c", "h", "u", "n", "k", "_">> \o IntStr(i) \o WavSuffix
ChunksJsonName == <<"c", "h", "u", "n", "k", "s", ".", "j", "s", "o", "n">>
TranscriptionsJsonName ==
    <<"t", "r", "a", "n", "s", "c", "r", "i", "p", "t", "i", "o", "n", "s",
      ".", "j", "s", "o", "n">>
OutputDir == <<"u", "p">>
PathJoin(dir, name) == dir \o <<"/">> \o name

ListDir ==
    DOMAIN wavs
      \cup (IF chunks_json.exists THEN {ChunksJsonName} ELSE {})
      \cup (IF transcriptions_json.exists THEN {TranscriptionsJsonName} ELSE {})

(***************************************************************************)
(* Inputs: the chunks silence.split_on_silence returns for an audio file.  *)
(***************************************************************************)
Audios(max) == {[i \in 1..n |-> d] : n \in 0..max, d \in ChunkDurations}

(***************************************************************************)
(* split_audio, called with its default silence parameters (which pass the *)
(* parameter validation).                                                  *)
(***************************************************************************)
SplitOutcomes == {"ok", "not_found", "load_error", "export_error", "save_error"}

Metadata(a) ==
    [i \in 1..Len(a) |->
        [file |-> PathJoin(OutputDir, ChunkName(i - 1)), duration_ms |-> a[i]]]

\* chunk.export for the first k chunks: chunk_i.wav is created or overwritten.
ExportChunks(files, a, k) ==
    IF k = 0 THEN files ELSE
    [name \in DOMAIN files \cup {ChunkName(i) : i \in 0..(k - 1)} |->
        IF \E i \in 0..(k - 1) : name = ChunkName(i)
        THEN a[(CHOOSE i \in 0..(k - 1) : name = ChunkName(i)) + 1]
        ELSE files[name]]

SplitAudio ==
    /\ pc = "split"
    /\ \E outcome \in SplitOutcomes, k \in 0..Len(audio) :
         /\ (outcome = "export_error") => k < Len(audio)
         /\ (outcome \in {"ok", "save_error"}) => k = Len(audio)
         /\ (outcome \in {"not_found", "load_error"}) => k = 0
         /\ (outcome = "save_error") => audio # <<>>
         /\ dirExists' = (dirExists \/ outcome # "not_found")
         /\ wavs' = ExportChunks(wavs, audio, k)
         /\ chunks_json' =
              IF outcome = "ok" /\ audio # <<>>
              THEN [exists |-> TRUE, content |-> Metadata(audio)]
              ELSE chunks_json
         /\ IF outcome = "ok"
            THEN /\ chunks' = Metadata(audio)
                 /\ pc' = "split_ret"
                 /\ exc' = exc
            ELSE /\ chunks' = chunks
                 /\ pc' = "except"
                 /\ exc' = [stage |-> "split", msg |-> outcome]
    /\ UNCHANGED <<transcriptions_json, final_video_file, argVars, results,
                   raised, invoked, runs, transcriptions, tVars, cVars>>

(***************************************************************************)
(* transcribe_chunks                                                       *)
(***************************************************************************)
RequestOutcomes == {"ok", "timeout", "request_error", "unexpected"}

SuccessRecord(path, text, duration) ==
    [file |-> path, text |-> text, duration_ms |-> duration]

TimeoutRecordUnmarked(path, duration) ==
    [file |-> path, text |-> <<>>, duration_ms |-> duration]

TimeoutRecord(path, duration) ==
    [file |-> path, text |-> <<>>, duration_ms |-> duration, error |-> "timeout"]

RequestErrorRecord(path, duration) ==
    [file |-> path, text |-> <<>>, duration_ms |-> duration,
     error |-> "request_error"]

AbsorbSuccessOnly(list, record) ==
    IF "error" \in DOMAIN record THEN list ELSE Append(list, record)

\* data.append(...) of the loop body and of the two handlers
Absorb(list, record) == Append(list, record)

\* sorted([f for f in os.listdir(chunks_dir) if f.endswith(".wav")])
WavFiles(listing) == Sorted({f \in listing : EndsWith(f, WavSuffix)})

TranscribeStart ==
    /\ pc = "t_start"
    /\ IF ~dirExists
       THEN /\ pc' = "except"
            /\ exc' = [stage |-> "transcribe", msg |-> "chunks_dir_not_found"]
            /\ UNCHANGED <<transcriptions, tVars>>
       ELSE IF WavFiles(ListDir) = <<>>
       THEN /\ pc' = "t_ret"
            /\ transcriptions' = <<>>
            /\ UNCHANGED <<exc, tVars>>
       ELSE /\ pc' = "t_loop"
            /\ wav_files' = WavFiles(ListDir)
            /\ idx' = 1
            /\ data' = <<>>
            /\ UNCHANGED <<exc, transcriptions, reqlog, blank_count>>
    /\ UNCHANGED <<fsVars, argVars, results, raised, invoked, runs, chunks, cVars>>

\* One iteration of the loop over wav_files.  decoded: AudioSegment.from_file
\* succeeds on the chunk file (it is called in the body and in both handlers).
TranscribeFile ==
    /\ pc = "t_loop"
    /\ \E outcome \in RequestOutcomes, text \in ResponseTexts, decoded \in BOOLEAN :
         LET file == wav_files[idx]
             path == PathJoin(OutputDir, file)
             record ==
                 CASE outcome = "timeout" -> TimeoutRecord(path, wavs[file])
                   [] outcome = "request_error" -> RequestErrorRecord(path, wavs[file])
                   [] OTHER -> SuccessRecord(path, text, wavs[file])
             absorbed == outcome # "unexpected" /\ decoded
         IN  /\ (outcome # "ok") => text = <<>>
             /\ (outcome = "unexpected") => decoded
             /\ (absorbed /\ Strip(record.text) = <<>>) => blank_count < MaxBlank
             /\ reqlog' = Append(reqlog, outcome)
             /\ IF ~absorbed
                THEN /\ pc' = "except"
                     /\ exc' = [stage |-> "transcribe", msg |-> "unexpected"]
                     /\ idx' = 0
                     /\ data' = <<>>
                     /\ UNCHANGED <<wav_files, blank_count>>
                ELSE /\ data' = Absorb(data, record)
                     /\ idx' = idx + 1
                     /\ pc' = IF idx = Len(wav_files) THEN "t_save" ELSE "t_loop"
                     /\ blank_count' =
                          IF Strip(record.text) = <<>>
                          THEN blank_count + 1 ELSE blank_count
                     /\ UNCHANGED <<exc, wav_files>>
    /\ UNCHANGED <<fsVars, argVars, orchVars, cVars>>

\* json.dump(data) to output_json, then return data
TranscribeSave ==
    /\ pc = "t_save"
    /\ \E written \in BOOLEAN :
         IF written
         THEN /\ transcriptions_json' = [exists |-> TRUE, content |-> data]
              /\ transcriptions' = data
              /\ pc' = "t_ret"
              /\ exc' = exc
         ELSE /\ pc' = "except"
              /\ exc' = [stage |-> "transcribe", msg |-> "io_error"]
              /\ UNCHANGED <<transcriptions_json, transcriptions>>
    /\ idx' = 0
    /\ data' = <<>>
    /\ UNCHANGED <<dirExists, wavs, chunks_json, final_video_file, argVars,
                   results, raised, invoked, runs, chunks, wav_files, reqlog,
                   blank_count, cVars>>

(***************************************************************************)
(* generate_video                                                          *)
(***************************************************************************)
ComposeOutcomes == {"ok", "concat_error", "audio_error", "write_error"}

ClipResource(i) == [kind |-> "clip", id |-> i]
TimelineResource == [kind |-> "timeline", id |-> 0]
NarrationResource == [kind |-> "audio", id |-> 0]

IsSkippedUnstripped(item) == item.text = <<>> \/ item.duration_ms <= 0

\* if not caption_text: continue / if duration <= 0: continue
IsSkipped(item) == Strip(item.text) = <<>> \/ item.duration_ms <= 0

EffectiveFade3Half(fade, duration, min_duration) ==
    IF duration > min_duration THEN Min(3 * fade, (3 * duration) \div 2) ELSE 0

EffectiveFade3AtThreshold(fade, duration, min_duration) ==
    IF duration >= min_duration THEN Min(3 * fade, duration) ELSE 0

\* 3 * current_fade_duration, in milliseconds:
\* min(fade_duration, duration / 3) if duration > min_duration_for_fade else 0
EffectiveFade3(fade, duration, min_duration) ==
    IF duration > min_duration THEN Min(3 * fade, duration) ELSE 0

\* the composite clip of one record; faded: vfx.FadeIn/FadeOut were applied
BuildClip(item, fade, min_duration) ==
    LET fade3 == EffectiveFade3(fade, item.duration_ms, min_duration)
    IN  [text |-> Strip(item.text), duration_ms |-> item.duration_ms,
         fade3 |-> fade3, faded |-> fade3 > 0]

\* what is still open after final_video_clip.close() and audio.close(); closing
\* the concatenated clip is taken to release the clips it was made of
CloseAfterWrite(open) ==
    {r \in open : r.kind \notin {"timeline", "clip", "audio"}}

ComposeValidate ==
    /\ pc = "c_start"
    /\ \E bg \in BOOLEAN, font \in BOOLEAN, narration \in BOOLEAN :
         LET problem ==
                 CASE ~transcriptions_json.exists -> "transcriptions_not_found"
                   [] ~bg -> "background_not_found"
                   [] ~font -> "font_not_found"
                   [] ~narration -> "audio_not_found"
                   [] fade_duration < 0 -> "fade_duration_negative"
                   [] font_size <= 0 -> "font_size_not_positive"
                   [] fps <= 0 -> "fps_not_positive"
                   [] transcriptions_json.content = <<>> -> "no_transcription_data"
                   [] OTHER -> "none"
         IN  IF problem # "none"
             THEN /\ pc' = "except"
                  /\ exc' = [stage |-> "compose", msg |-> problem]
                  /\ UNCHANGED cVars
             ELSE /\ pc' = "c_loop"
                  /\ cdata' = transcriptions_json.content
                  /\ ci' = 1
                  /\ clips' = <<>>
                  /\ skipped_clips' = 0
                  /\ held' = {}
                  /\ exc' = exc
    /\ UNCHANGED <<fsVars, argVars, orchVars, tVars>>

\* One iteration of the loop over the manifest.  built: ImageClip, TextClip and
\* CompositeVideoClip succeed.
ComposeRecord ==
    /\ pc = "c_loop"
    /\ \E built \in BOOLEAN :
         LET item == cdata[ci]
             next == IF ci = Len(cdata) THEN "c_finish" ELSE "c_loop"
         IN  /\ IsSkipped(item) => built
             /\ IF IsSkipped(item)
                THEN /\ skipped_clips' = skipped_clips + 1
                     /\ ci' = ci + 1
                     /\ pc' = next
                     /\ UNCHANGED <<clips, held, exc>>
                ELSE IF built
                THEN /\ clips' = Append(clips,
                             BuildClip(item, fade_duration, min_duration_for_fade))
                     /\ held' = held \cup {ClipResource(ci)}
                     /\ ci' = ci + 1
                     /\ pc' = next
                     /\ UNCHANGED <<skipped_clips, exc>>
                ELSE /\ pc' = "except"
                     /\ exc' = [stage |-> "compose", msg |-> "clip_error"]
                     /\ UNCHANGED <<clips, held, ci, skipped_clips>>
    /\ cdata' = cdata
    /\ UNCHANGED <<fsVars, argVars, orchVars, tVars>>

\* After the loop: the no-clips check, concatenate_videoclips, AudioFileClip,
\* write_videofile, the two close() calls, return final_video.
ComposeFinish ==
    /\ pc = "c_finish"
    /\ \E outcome \in ComposeOutcomes :
         /\ (clips = <<>>) => outcome = "ok"
         /\ IF clips = <<>>
            THEN /\ pc' = "except"
                 /\ exc' = [stage |-> "compose", msg |-> "no_valid_clips"]
                 /\ UNCHANGED <<final_video_file, held>>
            ELSE IF outcome = "ok"
            THEN /\ final_video_file' = [exists |-> TRUE, content |-> clips]
                 /\ held' = CloseAfterWrite(
                        held \cup {TimelineResource, NarrationResource})
                 /\ pc' = "c_ret"
                 /\ exc' = exc
            ELSE /\ held' =
                      held \cup (IF outcome = "concat_error" THEN {}
                                 ELSE IF outcome = "audio_error"
                                 THEN {TimelineResource}
                                 ELSE {TimelineResource, NarrationResource})
                 /\ pc' = "except"
                 /\ exc' = [stage |-> "compose", msg |-> outcome]
                 /\ UNCHANGED final_video_file
    /\ UNCHANGED <<dirExists, wavs, chunks_json, transcriptions_json, argVars,
                   orchVars, tVars, cdata, ci, clips, skipped_clips>>

(***************************************************************************)
(* process_full_pipeline                                                   *)
(***************************************************************************)
StartedResults == [status |-> "started", audio_path |-> "audio"]

FailedResultsNoMessage(res, msg) == [res EXCEPT !.status = "failed"]

FailedResults(res, msg) == [res EXCEPT !.status = "failed"] @@ [error |-> msg]

\* results["chunks_count"], results["chunks_dir"], then step 2 or its bypass
AfterSplit ==
    /\ pc = "split_ret"
    /\ IF api_url
       THEN /\ results' = results @@
                  [chunks_count |-> Len(chunks), chunks_dir |-> OutputDir]
            /\ invoked' = Append(invoked, "transcribe")
            /\ pc' = "t_start"
       ELSE /\ results' = results @@
                  [chunks_count |-> Len(chunks), chunks_dir |-> OutputDir,
                   transcriptions_count |-> 0]
            /\ invoked' = Append(invoked, "compose")
            /\ pc' = "c_start"
    /\ UNCHANGED <<fsVars, argVars, raised, runs, chunks, transcriptions, tVars,
                   cVars, exc>>

\* results["transcriptions_count"], then step 3
AfterTranscribe ==
    /\ pc = "t_ret"
    /\ results' = results @@ [transcriptions_count |-> Len(transcriptions)]
    /\ invoked' = Append(invoked, "compose")
    /\ pc' = "c_start"
    /\ UNCHANGED <<fsVars, argVars, raised, runs, chunks, transcriptions, tVars,
                   cVars, exc>>

\* results["video_path"], results["status"] = "success", return results
AfterCompose ==
    /\ pc = "c_ret"
    /\ results' = [results EXCEPT !.status = "success"] @@ [video_path |-> "video"]
    /\ pc' = "done"
    /\ UNCHANGED <<fsVars, argVars, raised, invoked, runs, chunks, transcriptions,
                   tVars, cVars, exc>>

\* except Exception as e: status, error, raise
PipelineExcept ==
    /\ pc = "except"
    /\ results' = FailedResults(results, exc.msg)
    /\ raised' = exc.msg
    /\ exc' = NoError
    /\ pc' = "raised"
    /\ UNCHANGED <<fsVars, argVars, invoked, runs, chunks, transcriptions, tVars,
                   cVars>>

\* The locals of a call of process_full_pipeline about to run step 1.
FreshCall ==
    /\ pc = "split"
    /\ results = StartedResults
    /\ raised = "none"
    /\ exc = NoError
    /\ invoked = <<"split">>
    /\ chunks = <<>>
    /\ transcriptions = <<>>
    /\ wav_files = <<>>
    /\ idx = 0
    /\ data = <<>>
    /\ reqlog = <<>>
    /\ blank_count = 0
    /\ cdata = <<>>
    /\ ci = 0
    /\ clips = <<>>
    /\ skipped_clips = 0
    /\ held = {}

PipelineDefaults ==
    /\ fade_duration = DefaultFadeMs
    /\ min_duration_for_fade = DefaultMinDurationMs
    /\ font_size = DefaultFontSize
    /\ fps = DefaultFps

EmptyWorkDir ==
    /\ dirExists = FALSE
    /\ wavs = <<>>
    /\ chunks_json = NoFile
    /\ transcriptions_json = NoFile
    /\ final_video_file = NoFile

\* process_full_pipeline is called again on the same work directory.
StartRun ==
    /\ pc \in {"done", "raised"}
    /\ runs < MaxRuns
    /\ runs' = runs + 1
    /\ audio' \in Audios(MaxSegments)
    /\ api_url' \in BOOLEAN
    /\ pc' = "split"
    /\ results' = StartedResults
    /\ raised' = "none"
    /\ exc' = NoError
    /\ invoked' = <<"split">>
    /\ chunks' = <<>>
    /\ transcriptions' = <<>>
    /\ wav_files' = <<>>
    /\ idx' = 0
    /\ data' = <<>>
    /\ reqlog' = <<>>
    /\ blank_count' = 0
    /\ cdata' = <<>>
    /\ ci' = 0
    /\ clips' = <<>>
    /\ skipped_clips' = 0
    /\ held' = {}
    /\ UNCHANGED <<fsVars, fade_duration, min_duration_for_fade, font_size, fps>>

(***************************************************************************)
(* Spec: pipeline runs, one after the other, on one work directory.        *)
(***************************************************************************)
Init ==
    /\ EmptyWorkDir
    /\ audio \in Audios(MaxSegments)
    /\ api_url \in BOOLEAN
    /\ PipelineDefaults
    /\ runs = 1
    /\ FreshCall

Next ==
    \/ StartRun
    \/ SplitAudio
    \/ AfterSplit
    \/ TranscribeStart
    \/ TranscribeFile
    \/ TranscribeSave
    \/ AfterTranscribe
    \/ ComposeValidate
    \/ ComposeRecord
    \/ ComposeFinish
    \/ AfterCompose
    \/ PipelineExcept

Spec == Init /\ [][Next]_vars

(***************************************************************************)
(* SpecStages: steps 1 and 2 of one pipeline run with an endpoint, on an   *)
(* empty work directory, for audio of up to MaxChunks segments.            *)
(***************************************************************************)
InitStages ==
    /\ EmptyWorkDir
    /\ audio \in Audios(MaxChunks)
    /\ api_url = TRUE
    /\ PipelineDefaults
    /\ runs = 1
    /\ FreshCall

NextStages ==
    \/ SplitAudio
    \/ AfterSplit
    \/ TranscribeStart
    \/ TranscribeFile
    \/ TranscribeSave

SpecStages == InitStages /\ [][NextStages]_vars

(***************************************************************************)
(* SpecCompose: one call of generate_video on a work directory that holds  *)
(* any transcript manifest of up to MaxRecords records, or none.           *)
(***************************************************************************)
ManifestRecords(n) ==
    [1..n -> [text : Texts, duration_ms : Durations]]

Manifest(m) ==
    [i \in 1..Len(m) |->
        SuccessRecord(PathJoin(OutputDir, ChunkName(i - 1)), m[i].text,
                      m[i].duration_ms)]

Manifests == UNION {{Manifest(m) : m \in ManifestRecords(n)} : n \in 0..MaxRecords}

InitCompose ==
    /\ dirExists = TRUE
    /\ wavs = <<>>
    /\ chunks_json = NoFile
    /\ final_video_file = NoFile
    /\ transcriptions_json \in
         {NoFile} \cup {[exists |-> TRUE, content |-> m] : m \in Manifests}
    /\ audio = <<>>
    /\ api_url = FALSE
    /\ fade_duration \in FadeDurations
    /\ min_duration_for_fade \in MinDurations
    /\ font_size \in FontSizes
    /\ fps \in FpsValues
    /\ runs = 1
    /\ pc = "c_start"
    /\ results = StartedResults
    /\ raised = "none"
    /\ exc = NoError
    /\ invoked = <<"compose">>
    /\ chunks = <<>>
    /\ transcriptions = <<>>
    /\ wav_files = <<>>
    /\ idx = 0
    /\ data = <<>>
    /\ reqlog = <<>>
    /\ blank_count = 0
    /\ cdata = <<>>
    /\ ci = 0
    /\ clips = <<>>
    /\ skipped_clips = 0
    /\ held = {}

NextCompose ==
    \/ ComposeValidate
    \/ ComposeRecord
    \/ ComposeFinish

SpecCompose == InitCompose /\ [][NextCompose]_vars

(***************************************************************************)
(* Properties                                                              *)
(***************************************************************************)
Last(s) == s[Len(s)]
WavNames == {f \in ListDir : EndsWith(f, WavSuffix)}
HasError(record) == "error" \in DOMAIN record
Contributes(item) ==
    /\ item.duration_ms > 0
    /\ \E i \in 1..Len(item.text) : item.text[i] # " "
Caption(item) == [text |-> Strip(item.text), duration_ms |-> item.duration_ms]
ClipCaption(clip) == [text |-> clip.text, duration_ms |-> clip.duration_ms]
Captions(items) ==
    LET kept == SelectSeq(items, Contributes)
    IN  [i \in 1..Len(kept) |-> Caption(kept[i])]
ClipCaptions(list) == [i \in 1..Len(list) |-> ClipCaption(list[i])]
RecordsFollowLog(records) ==
    \A i \in 1..Len(records) :
        /\ reqlog[i] = "timeout" =>
             /\ HasError(records[i])
             /\ records[i].error = "timeout"
             /\ records[i].text = <<>>
        /\ reqlog[i] = "ok" <=> ~HasError(records[i])
        /\ records[i].file = PathJoin(OutputDir, wav_files[i])
        /\ records[i].duration_ms = wavs[wav_files[i]]

\* C1: after split_audio exported N segments into an empty directory and
\* transcribe_chunks returned, there are N transcripts and transcript i has
\* the file of segment i (chunk_i in detection order).
CE_C1 ==
    pc = "t_ret" =>
        /\ Len(transcriptions) = Len(chunks)
        /\ \A i \in 1..Len(chunks) : transcriptions[i].file = chunks[i].file

C4_Inv ==
    /\ invoked \in {<<"split">>, <<"split", "transcribe">>, <<"split", "compose">>,
                    <<"split", "transcribe", "compose">>}
    /\ (Len(invoked) > 1) => (invoked[2] = "transcribe" <=> api_url)
    /\ results.status \in {"started", "success", "failed"}
    /\ results.status = "failed" <=> pc = "raised"
    /\ results.status = "success" <=> pc = "done"
    /\ pc = "except" => exc.stage = Last(invoked)
    /\ pc = "raised" =>
         /\ "error" \in DOMAIN results
         /\ results.error = raised
         /\ raised # "none"
    /\ pc = "done" =>
         /\ Last(invoked) = "compose"
         /\ raised = "none"
         /\ {"chunks_count", "chunks_dir", "transcriptions_count", "video_path"}
              \subseteq DOMAIN results

\* What holds of every step: a failure is followed by the except handler only,
\* success is set by the step that follows the return of generate_video, and a
\* result that is success or failed is left alone until another call starts.
C4_Step ==
    /\ pc = "except" =>
         /\ pc' = "raised"
         /\ invoked' = invoked
         /\ results'.status = "failed"
         /\ "error" \in DOMAIN results'
         /\ results'.error = exc.msg
         /\ raised' = exc.msg
    /\ (results.status # "success" /\ results'.status = "success") =>
         /\ pc = "c_ret"
         /\ Last(invoked) = "compose"
         /\ final_video_file.exists
    /\ (results.status \in {"success", "failed"}) =>
         \/ results' = results /\ invoked' = invoked /\ pc' = pc
         \/ runs' = runs + 1 /\ results'.status = "started"

\* C4: stages are invoked in the order split, transcribe (only with an
\* endpoint), compose; a failing stage is the last one invoked and the run
\* ends failed with its message, re-raised; success is reached only after
\* compose returned, with all result fields populated; a result that is
\* success or failed never changes.
T_C4 == [](C4_Inv) /\ [][C4_Step]_vars

\* C4 witness: the transcriber failed, the composer was never invoked and the
\* run ended failed.
W_C4 ==
    /\ pc = "raised"
    /\ invoked = <<"split", "transcribe">>
    /\ results.status = "failed"

\* C5: a first run with an endpoint whose segmentation returned zero segments
\* does not end failed and does not raise.
CE_C5 ==
    (runs = 1 /\ api_url /\ audio = <<>> /\ Len(invoked) > 1) =>
        /\ chunks = <<>>
        /\ results.status # "failed"
        /\ raised = "none"

\* C6: the clips built so far are the captions of the records read so far
\* that have non-blank text and a positive duration, in manifest order; the
\* encoded video is made of exactly these clips; and when every record is
\* skipped the call fails with the no-valid-clips error and encodes nothing.
T_C6 ==
    /\ pc \in {"c_loop", "c_finish"} =>
         ClipCaptions(clips) = Captions(SubSeq(cdata, 1, ci - 1))
    /\ pc = "c_ret" =>
         /\ ClipCaptions(clips) = Captions(cdata)
         /\ final_video_file = [exists |-> TRUE, content |-> clips]
    /\ (pc \in {"c_ret", "except"} /\ cdata # <<>> /\ ci = Len(cdata) + 1
          /\ Captions(cdata) = <<>>) =>
         /\ pc = "except"
         /\ exc.msg = "no_valid_clips"
         /\ ~final_video_file.exists

\* C6 witness: a video was encoded from a manifest whose first record, with
\* whitespace-only text, was skipped and whose second record was kept.
W_C6 ==
    /\ pc = "c_ret"
    /\ Len(cdata) = 2
    /\ Len(clips) = 1
    /\ cdata[1].text = <<" ">> /\ cdata[1].duration_ms > 0

\* C7 (amended): with fade_duration 0.8 and min_duration_for_fade 1.0 the
\* effective fade is 0.5 s for duration_ms 1500 and 0 for 900 and for 500.
T_C7 ==
    (fade_duration = DefaultFadeMs /\ min_duration_for_fade = DefaultMinDurationMs) =>
        \A i \in 1..Len(clips) :
            /\ clips[i].duration_ms = 1500 => clips[i].fade3 = 3 * 500
            /\ clips[i].duration_ms = 900 => clips[i].fade3 = 0
            /\ clips[i].duration_ms = 500 => clips[i].fade3 = 0

\* C7 witness: clips of 1500 and of 900 ms were built with the defaults.
W_C7 ==
    /\ fade_duration = DefaultFadeMs
    /\ min_duration_for_fade = DefaultMinDurationMs
    /\ \A d \in {1500, 900} : \E i \in 1..Len(clips) : clips[i].duration_ms = d

\* C7 as claimed: 0.8 s for 1500, 0.3 s for 900, 0 for 500.
CE_C7 ==
    (fade_duration = DefaultFadeMs /\ min_duration_for_fade = DefaultMinDurationMs) =>
        \A i \in 1..Len(clips) :
            /\ clips[i].duration_ms = 1500 => clips[i].fade3 = 3 * 800
            /\ clips[i].duration_ms = 900 => clips[i].fade3 = 3 * 300
            /\ clips[i].duration_ms = 500 => clips[i].fade3 = 0

\* C8: every clip has effective fade min(fade_duration, duration / 3) when
\* its duration exceeds min_duration_for_fade and 0 otherwise; the fade is at
\* most a third of the duration, fade-in and fade-out do not overlap, and the
\* fade effect is applied exactly when the effective fade is positive.
T_C8 ==
    \A i \in 1..Len(clips) :
        LET d == clips[i].duration_ms
            f3 == clips[i].fade3
        IN  /\ d > 0 /\ fade_duration >= 0
            /\ (d > min_duration_for_fade /\ 3 * fade_duration <= d) =>
                 f3 = 3 * fade_duration
            /\ (d > min_duration_for_fade /\ 3 * fade_duration > d) => f3 = d
            /\ (d <= min_duration_for_fade) => f3 = 0
            /\ 0 <= f3 /\ f3 <= d
            /\ 2 * f3 <= 3 * d
            /\ clips[i].faded <=> f3 > 0

\* C8 witness: one clip whose fade is capped at a third of its duration and
\* one clip at the threshold, which is not faded.
W_C8 ==
    /\ \E i \in 1..Len(clips) :
         clips[i].fade3 = clips[i].duration_ms /\ clips[i].fade3 < 3 * fade_duration
    /\ \E i \in 1..Len(clips) :
         clips[i].duration_ms = min_duration_for_fade /\ ~clips[i].faded

\* C9: when a call of generate_video has ended, returning or raising, no
\* media resource it opened is still held.
CE_C9 == pc \in {"c_ret", "except"} => held = {}

\* C10: after a run with an endpoint ended with success, transcriptions.json
\* holds one record per segment this run exported, in segment order, and
\* transcriptions_count equals chunks_count.
CE_C10 ==
    (pc = "done" /\ api_url) =>
        /\ transcriptions_json.exists
        /\ Len(transcriptions_json.content) = Len(chunks)
        /\ \A i \in 1..Len(chunks) :
             transcriptions_json.content[i].file = chunks[i].file
        /\ results.transcriptions_count = results.chunks_count

====
